---- MODULE Spec2Model ----
(***************************************************************************)
(* The PDF summarizer pipeline of function_app.py: a blob trigger starts   *)
(* one orchestration per upload; the orchestrator calls analyze_pdf,       *)
(* summarize_text and write_summary in sequence, each under the retry      *)
(* policy RetryOptions(5000 ms, 3 attempts).                               *)
(*                                                                         *)
(* Strings are sequences of one-character strings, so that joining,        *)
(* splitting and formatting are computed character by character.           *)
(* An optional value is a sequence of length 0 (None) or 1 (Some).         *)
(*                                                                         *)
(* Spec is the pipeline run for one upload, second by second; LiveSpec     *)
(* adds the fairness of the host.  ExtractSpec runs analyze_pdf alone on   *)
(* every bounded document, WriteSpec runs write_summary alone for two      *)
(* instances at several clock readings.                                    *)
(*                                                                         *)
(* The services are the environment: the analysis service returns the      *)
(* pages of the document it is given, the completion endpoint answers with *)
(* any status and body, and each call may fail.  Activities run at least   *)
(* once: an upload may be stored although the call that made it raises.    *)
(***************************************************************************)
EXTENDS Naturals, Sequences, FiniteSets, TLC

VARIABLES
    input,      \* the "input" container: blob name -> document (its pages)
    output,     \* the "output" container: blob name -> blob content
    utc,        \* the wall clock read by datetime.utcnow()
    now,        \* seconds elapsed since the start of the run (durable timers)
    inst,       \* the orchestration instances (orchestrator position and locals)
    act,        \* per instance, the activity invocations currently executing
    hist,       \* per instance and activity: attempts, last argument, result
    uploads,    \* per instance, the names of the blobs it created in "output"
    http,       \* per instance, the response requests.post has returned
    answered,   \* per instance, whether every summarize_text attempt so far
                \* was answered with a non-2xx status, with an error status
    rejected    \* per instance, the uploads refused because the name existed

vars == <<input, output, utc, now, inst, act, hist, uploads, http, answered,
          rejected>>

----------------------------------------------------------------------------
(* Bounds of the model *)

MaxTicks == 11

MaxWriteTicks == 6

MaxPages == 2

MaxLinesPerPage == 2

(* Program constants *)

MaxAttempts == 3

RetryDelay == 5

None == <<>>

Some(v) == <<v>>

----------------------------------------------------------------------------
(* Character strings *)

NL == "\n"

Str_input == <<"i", "n", "p", "u", "t", "/">>

Str_txt == <<".", "t", "x", "t">>

Invoice == <<"i", "n", "v", "o", "i", "c", "e", ".", "p", "d", "f">>

Memo == <<"m", ".", "p", "d", "f">>

Docs == {Invoice, Memo}

Line1 == <<"L", "i", "n", "e", " ", "1">>

Line2 == <<"L", "i", "n", "e", " ", "2">>

\* The documents uploaded in the pipeline runs: the service's view of a
\* document is its sequence of pages, each a sequence of text lines.
PDFs == {<< >>, << <<Line1, Line2>> >>}

\* The lines the bounded documents are made of: an empty line and a line of
\* two characters.
LineSet == {<< >>, <<"a", "b">>}

----------------------------------------------------------------------------
(* blob_trigger: name = myblob.name.split("/")[-1] *)

LastSlash(s) ==
    LET idx == {k \in 1..Len(s) : s[k] = "/"}
    IN  IF idx = {} THEN 0 ELSE CHOOSE k \in idx : \A j \in idx : j <= k

LeafName(path) == SubSeq(path, LastSlash(path) + 1, Len(path))

----------------------------------------------------------------------------
(* analyze_pdf: "\n".join(line.content for p in pages for line in p.lines) *)

RECURSIVE AllLines(_)
AllLines(pages) ==
    IF pages = << >> THEN << >>
    ELSE Head(pages) \o AllLines(Tail(pages))

\* A slip: every line is followed by the separator, the last one too.
RECURSIVE JoinTrailing(_, _)
JoinTrailing(sep, lines) ==
    IF lines = << >> THEN << >>
    ELSE Head(lines) \o <<sep>> \o JoinTrailing(sep, Tail(lines))

RECURSIVE Join(_, _)
Join(sep, lines) ==
    IF lines = << >> THEN << >>
    ELSE IF Len(lines) = 1 THEN Head(lines)
    ELSE Head(lines) \o <<sep>> \o Join(sep, Tail(lines))

ExtractText(pages) == Join(NL, AllLines(pages))

----------------------------------------------------------------------------
(* summarize_text: resp.raise_for_status(), then                           *)
(* resp.json()["choices"][0]["message"]["content"]                         *)

\* requests.Response.raise_for_status raises HTTPError for the client and
\* server error classes, 400 <= status_code < 600.
RaiseForStatus(status) == status >= 400 /\ status < 600

\* A response body: no JSON at all, or a JSON object whose "choices" list
\* holds the content of each choice (the summaries "S" and "T").
NoJson == [json |-> FALSE, choices |-> << >>]

Bodies ==
    {NoJson} \cup
    {[json |-> TRUE, choices |-> c] : c \in {<< >>, <<"S">>, <<"T", "S">>}}

HttpStatuses == {200, 201, 304, 429, 500}

Responses == [status : HttpStatuses, body : Bodies]

\* A slip: raise_for_status left out.
SummarizeRaisesUnchecked(resp) ==
    \/ ~resp.body.json
    \/ Len(resp.body.choices) = 0

\* The outcome of the function body on a response: raised, or the value
\* returned.
SummarizeRaises(resp) ==
    \/ RaiseForStatus(resp.status)
    \/ ~resp.body.json
    \/ Len(resp.body.choices) = 0

\* A slip: the last choice is taken instead of the first.
SummarizeValueLast(resp) == resp.body.choices[Len(resp.body.choices)]

SummarizeValue(resp) == resp.body.choices[1]

----------------------------------------------------------------------------
(* write_summary: ts = datetime.utcnow().strftime("%Y%m%d%H%M%S");         *)
(* out_name = f"{blob_name}-{ts}.txt"                                      *)

DigitChars == <<"0", "1", "2", "3", "4", "5", "6", "7", "8", "9">>

RECURSIVE Digits(_)
Digits(n) ==
    IF n < 10 THEN <<DigitChars[n + 1]>>
    ELSE Digits(n \div 10) \o <<DigitChars[(n % 10) + 1]>>

RECURSIVE ZeroPad(_, _)
ZeroPad(s, width) == IF Len(s) >= width THEN s ELSE ZeroPad(<<"0">> \o s, width)

\* A slip: the fields are written without zero padding.
StrftimeUnpadded(t) ==
    Digits(t.year) \o Digits(t.month) \o Digits(t.day) \o Digits(t.hour)
        \o Digits(t.minute) \o Digits(t.second)

Strftime(t) ==
    ZeroPad(Digits(t.year), 4) \o ZeroPad(Digits(t.month), 2)
        \o ZeroPad(Digits(t.day), 2) \o ZeroPad(Digits(t.hour), 2)
        \o ZeroPad(Digits(t.minute), 2) \o ZeroPad(Digits(t.second), 2)

OutName(blob_name, t) == blob_name \o <<"-">> \o Strftime(t) \o Str_txt

\* A slip: the upload made with overwrite=True.
UploadOverwrites(container, name) == FALSE

\* ContainerClient.upload_blob(name=, data=) is called without overwrite=,
\* whose default False makes the service reject an existing name
\* (ResourceExistsError).
UploadRejected(container, name) == name \in DOMAIN container

Put(container, name, data) ==
    [n \in DOMAIN container \cup {name} |->
        IF n = name THEN data ELSE container[n]]

----------------------------------------------------------------------------
(* The wall clock *)

IsLeap(y) == (y % 4 = 0 /\ y % 100 # 0) \/ y % 400 = 0

DaysInMonth(y, m) ==
    IF m = 2 THEN (IF IsLeap(y) THEN 29 ELSE 28)
    ELSE IF m \in {4, 6, 9, 11} THEN 30 ELSE 31

AddSecond(t) ==
    IF t.second < 59 THEN [t EXCEPT !.second = t.second + 1]
    ELSE IF t.minute < 59 THEN [t EXCEPT !.second = 0, !.minute = t.minute + 1]
    ELSE IF t.hour < 23
        THEN [t EXCEPT !.second = 0, !.minute = 0, !.hour = t.hour + 1]
    ELSE IF t.day < DaysInMonth(t.year, t.month)
        THEN [t EXCEPT !.second = 0, !.minute = 0, !.hour = 0,
                       !.day = t.day + 1]
    ELSE IF t.month < 12
        THEN [t EXCEPT !.second = 0, !.minute = 0, !.hour = 0, !.day = 1,
                       !.month = t.month + 1]
    ELSE [year |-> t.year + 1, month |-> 1, day |-> 1, hour |-> 0,
          minute |-> 0, second |-> 0]

StartTime ==
    [year |-> 2025, month |-> 1, day |-> 1, hour |-> 11, minute |-> 59,
     second |-> 58]

----------------------------------------------------------------------------
(* The orchestrator *)

StepNames == {"analyze_pdf", "summarize_text", "write_summary"}

NoHist == [tries |-> 0, arg |-> None, read |-> None, ok |-> FALSE, ret |-> None]

NoAnswers == [non2xx |-> TRUE, errors |-> TRUE]

NotStarted ==
    [state |-> "NotStarted", input |-> None, pc |-> "analyze_pdf",
     attempt |-> 0, timer |-> 0, text |-> None, summary |-> None,
     outblob |-> None]

\* client.start_new("orchestrator", client_input=name)
StartNew(name) == [NotStarted EXCEPT !.state = "Running", !.input = Some(name)]

\* A slip: summarize_text is handed the document name instead of the text.
ActivityInputName(r) ==
    CASE r.pc = "analyze_pdf" -> r.input[1]
      [] r.pc = "summarize_text" -> r.input[1]
      [] r.pc = "write_summary" ->
            [blob |-> r.input[1], summary |-> r.summary[1]]

\* The argument of the activity call the orchestrator is suspended at.
ActivityInput(r) ==
    CASE r.pc = "analyze_pdf" -> r.input[1]
      [] r.pc = "summarize_text" -> r.text[1]
      [] r.pc = "write_summary" ->
            [blob |-> r.input[1], summary |-> r.summary[1]]

\* A slip: max_number_of_attempts counted as the number of retries.
MayAttemptOffByOne(r) == r.attempt <= MaxAttempts

\* call_activity_with_retry: another attempt is made only while fewer than
\* max_number_of_attempts have been made.
MayAttempt(r) == r.attempt < MaxAttempts

\* The activity's result is bound to the local of its yield and the
\* orchestrator runs on to the next yield, or to its return.
OnSuccess(r, value) ==
    CASE r.pc = "analyze_pdf" ->
            [r EXCEPT !.text = Some(value), !.pc = "summarize_text",
                      !.attempt = 0, !.timer = 0]
      [] r.pc = "summarize_text" ->
            [r EXCEPT !.summary = Some(value), !.pc = "write_summary",
                      !.attempt = 0, !.timer = 0]
      [] r.pc = "write_summary" ->
            [r EXCEPT !.outblob = Some(value), !.pc = "return",
                      !.attempt = 0, !.timer = 0, !.state = "Completed"]

\* A slip: the exception of the last attempt is swallowed and the
\* orchestrator is left waiting.
OnFailureSwallowed(r, clock) ==
    IF r.attempt < MaxAttempts THEN [r EXCEPT !.timer = clock + RetryDelay]
    ELSE r

\* A failed attempt: the retry timer is set (first_retry_interval, no
\* backoff), or, the attempts used up, the exception fails the orchestrator.
OnFailure(r, clock) ==
    IF MayAttempt(r) THEN [r EXCEPT !.timer = clock + RetryDelay]
    ELSE [r EXCEPT !.state = "Failed"]

Running(i) == inst[i].state = "Running"

Executing(i, name) == Len(act[i]) > 0 /\ act[i][1].name = name

\* What the host records when the executing activity of instance i ends.
Succeeds(i, value) ==
    /\ inst' = [inst EXCEPT ![i] = OnSuccess(inst[i], value)]
    /\ act' = [act EXCEPT ![i] = Tail(act[i])]
    /\ hist' = [hist EXCEPT ![i][inst[i].pc].ok = TRUE,
                            ![i][inst[i].pc].ret = Some(value)]

Fails(i) ==
    /\ inst' = [inst EXCEPT ![i] = OnFailure(inst[i], now)]
    /\ act' = [act EXCEPT ![i] = Tail(act[i])]
    /\ hist' = hist

----------------------------------------------------------------------------
(* Actions *)

\* A file lands in the input container (a new name, or a name written again)
\* and blob_trigger starts an orchestration with its leaf name.
Upload(i, doc, pdf) ==
    /\ inst[i].state = "NotStarted"
    /\ i > 1 => inst[i - 1].state # "NotStarted"
    /\ input' = Put(input, doc, pdf)
    /\ inst' = [inst EXCEPT ![i] = StartNew(LeafName(Str_input \o doc))]
    /\ UNCHANGED <<output, utc, now, act, hist, uploads, http, answered,
                   rejected>>

\* The orchestrator, suspended at a yield with no attempt executing and no
\* retry timer pending, has the host start the next attempt of the call.
Schedule(i) ==
    /\ Running(i)
    /\ Len(act[i]) = 0
    /\ MayAttempt(inst[i])
    /\ now >= inst[i].timer
    /\ act' = [act EXCEPT ![i] =
                  Append(act[i], [name |-> inst[i].pc,
                                  arg |-> ActivityInput(inst[i])])]
    /\ inst' = [inst EXCEPT ![i].attempt = inst[i].attempt + 1]
    /\ hist' = [hist EXCEPT ![i][inst[i].pc].tries =
                                hist[i][inst[i].pc].tries + 1,
                            ![i][inst[i].pc].arg =
                                Some(ActivityInput(inst[i]))]
    /\ UNCHANGED <<input, output, utc, now, uploads, http, answered, rejected>>

\* A slip: the documents are removed from the input container once read.
AnalyzeConsumes ==
    /\ input' = << >>
    /\ output' = output

\* The effect of analyze_pdf on the containers: it only downloads.
AnalyzeEffect ==
    /\ input' = input
    /\ output' = output

\* analyze_pdf runs: the download or the analysis service may fail; otherwise
\* the lines of the pages are joined and returned.
AnalyzePdf(i, serviceOk) ==
    /\ Executing(i, "analyze_pdf")
    /\ LET blobName == act[i][1].arg
       IN  IF blobName \in DOMAIN input /\ serviceOk
           THEN /\ inst' = [inst EXCEPT ![i] =
                       OnSuccess(inst[i], ExtractText(input[blobName]))]
                /\ hist' = [hist EXCEPT
                       ![i]["analyze_pdf"].ok = TRUE,
                       ![i]["analyze_pdf"].read = Some(input[blobName]),
                       ![i]["analyze_pdf"].ret =
                           Some(ExtractText(input[blobName]))]
                /\ act' = [act EXCEPT ![i] = Tail(act[i])]
           ELSE Fails(i)
    /\ AnalyzeEffect
    /\ UNCHANGED <<utc, now, uploads, http, answered, rejected>>

\* requests.post returns: the endpoint has answered summarize_text's request.
HttpResponse(i, resp) ==
    /\ Executing(i, "summarize_text")
    /\ http[i] = None
    /\ http' = [http EXCEPT ![i] = Some(resp)]
    /\ answered' = [answered EXCEPT ![i] =
           [non2xx |-> @.non2xx /\ (resp.status < 200 \/ resp.status > 299),
            errors |-> @.errors /\ resp.status >= 400]]
    /\ UNCHANGED <<input, output, utc, now, inst, act, hist, uploads, rejected>>

\* summarize_text goes on with the response: raise_for_status, then the
\* first choice of the JSON body.
SummarizeText(i) ==
    /\ Executing(i, "summarize_text")
    /\ http[i] # None
    /\ IF SummarizeRaises(http[i][1])
       THEN Fails(i)
       ELSE Succeeds(i, SummarizeValue(http[i][1]))
    /\ http' = [http EXCEPT ![i] = None]
    /\ UNCHANGED <<input, output, utc, now, uploads, answered, rejected>>

\* requests.post raises instead: no response arrives.
SummarizeNoResponse(i) ==
    /\ Executing(i, "summarize_text")
    /\ http[i] = None
    /\ Fails(i)
    /\ answered' = [answered EXCEPT ![i] = [non2xx |-> FALSE, errors |-> FALSE]]
    /\ UNCHANGED <<input, output, utc, now, uploads, http, rejected>>

\* The ways the upload request can end when the name is free: stored and
\* acknowledged; failed before the service stored anything; stored, with the
\* acknowledgement lost, so that upload_blob raises.
UploadOutcomes == {"stored", "not_sent", "stored_unacknowledged"}

\* write_summary runs: the name is computed from the clock and the upload is
\* attempted.
WriteSummary(i, outcome) ==
    /\ Executing(i, "write_summary")
    /\ LET arg == act[i][1].arg
           out_name == OutName(arg.blob, utc)
           refused == UploadRejected(output, out_name)
           stored == ~refused /\ outcome # "not_sent"
           returned == ~refused /\ outcome = "stored"
       IN  /\ output' = IF stored THEN Put(output, out_name, arg.summary)
                        ELSE output
           /\ uploads' = IF stored
                         THEN [uploads EXCEPT ![i] = @ \cup {out_name}]
                         ELSE uploads
           /\ rejected' = IF refused
                          THEN [rejected EXCEPT ![i] = @ \cup {out_name}]
                          ELSE rejected
           /\ IF returned THEN Succeeds(i, out_name) ELSE Fails(i)
    /\ UNCHANGED <<input, utc, now, http, answered>>

\* One second passes, up to the end of the modelled window.
TickTo(horizon) ==
    /\ now < horizon
    /\ now' = now + 1
    /\ utc' = AddSecond(utc)
    /\ UNCHANGED <<input, output, inst, act, hist, uploads, http, answered,
                   rejected>>

Tick == TickTo(MaxTicks)

\* The steps of instance i once it is started.
Step(i) ==
    \/ Schedule(i)
    \/ \E ok \in BOOLEAN : AnalyzePdf(i, ok)
    \/ \E resp \in Responses : HttpResponse(i, resp)
    \/ SummarizeText(i)
    \/ SummarizeNoResponse(i)
    \/ \E o \in UploadOutcomes : WriteSummary(i, o)

----------------------------------------------------------------------------
(* The pipeline *)

Solo == {1}

Pair == {1, 2}

Idle(ids) ==
    /\ inst = [i \in ids |-> NotStarted]
    /\ act = [i \in ids |-> << >>]
    /\ hist = [i \in ids |-> [s \in StepNames |-> NoHist]]
    /\ uploads = [i \in ids |-> {}]
    /\ http = [i \in ids |-> None]
    /\ answered = [i \in ids |-> NoAnswers]
    /\ rejected = [i \in ids |-> {}]

Init ==
    /\ input = << >>
    /\ output = << >>
    /\ utc = StartTime
    /\ now = 0
    /\ Idle(Solo)

Next ==
    \/ \E i \in DOMAIN inst, doc \in Docs, pdf \in PDFs : Upload(i, doc, pdf)
    \/ \E i \in DOMAIN inst : Schedule(i)
    \/ \E i \in DOMAIN inst, ok \in BOOLEAN : AnalyzePdf(i, ok)
    \/ \E i \in DOMAIN inst, resp \in Responses : HttpResponse(i, resp)
    \/ \E i \in DOMAIN inst : SummarizeText(i)
    \/ \E i \in DOMAIN inst : SummarizeNoResponse(i)
    \/ \E i \in DOMAIN inst, o \in UploadOutcomes : WriteSummary(i, o)
    \/ Tick

Spec == Init /\ [][Next]_vars

----------------------------------------------------------------------------
(* The pipeline past the modelled window.  The clock reading is tracked for *)
(* MaxTicks seconds only; past them time still passes for the retry timers, *)
(* so that an instance waiting for a retry is never held up by the window.  *)

TickBeyond ==
    /\ now = MaxTicks
    /\ \E i \in DOMAIN inst : Running(i) /\ inst[i].timer > now
    /\ inst' = [i \in DOMAIN inst |->
                   IF inst[i].timer > now
                   THEN [inst[i] EXCEPT !.timer = @ - 1] ELSE inst[i]]
    /\ UNCHANGED <<input, output, utc, now, act, hist, uploads, http,
                   answered, rejected>>

LiveNext == Next \/ TickBeyond

\* The host is fair: time passes, a ready orchestrator is resumed, and an
\* executing activity attempt ends (by returning or by raising).
Fairness ==
    /\ WF_vars(Tick \/ TickBeyond)
    /\ \A i \in Solo : WF_vars(Step(i))

LiveSpec == Init /\ [][LiveNext]_vars /\ Fairness

----------------------------------------------------------------------------
(* analyze_pdf on its own: two instances started for the same blob, whose   *)
(* document is any of the bounded documents.                                *)

SeqsUpTo(S, n) == UNION {[1..k -> S] : k \in 0..n}

Documents == SeqsUpTo(SeqsUpTo(LineSet, MaxLinesPerPage), MaxPages)

InitExtract ==
    /\ input \in {Put(<< >>, Invoice, d) : d \in Documents}
    /\ output = << >>
    /\ utc = StartTime
    /\ now = 0
    /\ inst = [i \in Pair |-> StartNew(Invoice)]
    /\ act = [i \in Pair |-> << >>]
    /\ hist = [i \in Pair |-> [s \in StepNames |-> NoHist]]
    /\ uploads = [i \in Pair |-> {}]
    /\ http = [i \in Pair |-> None]
    /\ answered = [i \in Pair |-> NoAnswers]
    /\ rejected = [i \in Pair |-> {}]

NextExtract ==
    \/ \E i \in DOMAIN inst : inst[i].pc = "analyze_pdf" /\ Schedule(i)
    \/ \E i \in DOMAIN inst, ok \in BOOLEAN : AnalyzePdf(i, ok)

ExtractSpec == InitExtract /\ [][NextExtract]_vars

----------------------------------------------------------------------------
(* write_summary on its own: two instances whose orchestrators have reached *)
(* the third call, at any of several clock readings.                        *)

DateTime(y, mo, d, h, mi, s) ==
    [year |-> y, month |-> mo, day |-> d, hour |-> h, minute |-> mi,
     second |-> s]

DateTimes ==
    {DateTime(2025, 1, 1, 11, 59, 58), DateTime(2025, 12, 31, 23, 59, 57),
     DateTime(2024, 2, 28, 23, 59, 59), DateTime(2026, 10, 9, 8, 7, 6)}

TwoLines == << <<Line1, Line2>> >>

\* The orchestrator of a run for doc whose first two calls have returned.
AtWrite(doc, summary) ==
    [StartNew(doc) EXCEPT !.pc = "write_summary",
                          !.text = Some(ExtractText(TwoLines)),
                          !.summary = Some(summary)]

HistAtWrite(doc, summary) ==
    [s \in StepNames |->
        CASE s = "analyze_pdf" ->
                [tries |-> 1, arg |-> Some(doc), read |-> Some(TwoLines),
                 ok |-> TRUE, ret |-> Some(ExtractText(TwoLines))]
          [] s = "summarize_text" ->
                [tries |-> 1, arg |-> Some(ExtractText(TwoLines)),
                 read |-> None, ok |-> TRUE, ret |-> Some(summary)]
          [] OTHER -> NoHist]

InitWrite ==
    /\ utc \in DateTimes
    /\ now = 0
    /\ output = << >>
    /\ \E doc \in Docs :
        /\ input = Put(Put(<< >>, Invoice, TwoLines), doc, TwoLines)
        /\ inst = [i \in Pair |->
                      IF i = 1 THEN AtWrite(Invoice, "S") ELSE AtWrite(doc, "T")]
        /\ hist = [i \in Pair |->
                      IF i = 1 THEN HistAtWrite(Invoice, "S")
                      ELSE HistAtWrite(doc, "T")]
    /\ act = [i \in Pair |-> << >>]
    /\ uploads = [i \in Pair |-> {}]
    /\ http = [i \in Pair |-> None]
    /\ answered = [i \in Pair |-> [non2xx |-> FALSE, errors |-> FALSE]]
    /\ rejected = [i \in Pair |-> {}]

NextWrite ==
    \/ \E i \in DOMAIN inst : Schedule(i)
    \/ \E i \in DOMAIN inst, o \in UploadOutcomes : WriteSummary(i, o)
    \/ TickTo(MaxWriteTicks)

WriteSpec == InitWrite /\ [][NextWrite]_vars

----------------------------------------------------------------------------
(* Properties *)

StartsWith(s, prefix) ==
    Len(s) >= Len(prefix) /\ SubSeq(s, 1, Len(prefix)) = prefix

EndsWith(s, suffix) ==
    Len(s) >= Len(suffix)
        /\ SubSeq(s, Len(s) - Len(suffix) + 1, Len(s)) = suffix

Terminal(i) == inst[i].state \in {"Completed", "Failed"}

TotalAttempts(i) ==
    hist[i]["analyze_pdf"].tries + hist[i]["summarize_text"].tries
        + hist[i]["write_summary"].tries

\* C1: every instance that ended in success has created exactly one blob in
\* the output container, and the name of that blob starts with the uploaded
\* file name followed by "-" and ends with ".txt".
C1_OneBlobPerSuccess ==
    \A i \in DOMAIN inst :
        inst[i].state = "Completed" =>
            /\ Cardinality(uploads[i]) = 1
            /\ \A n \in uploads[i] :
                /\ n \in DOMAIN output
                /\ StartsWith(n, inst[i].input[1] \o <<"-">>)
                /\ EndsWith(n, <<".", "t", "x", "t">>)

\* C2: within an instance at most one activity executes at a time; a step is
\* started only after the step before it has succeeded; analyze_pdf is given
\* the instance's document name, summarize_text the text analyze_pdf
\* returned, write_summary the document name with the summary summarize_text
\* returned; and the result of a completed instance is the blob name
\* write_summary returned.
C2_SequentialSteps ==
    \A i \in DOMAIN inst :
        LET h == hist[i]
        IN  /\ Len(act[i]) <= 1
            /\ h["analyze_pdf"].tries > 0 =>
                /\ inst[i].state # "NotStarted"
                /\ h["analyze_pdf"].arg = inst[i].input
            /\ h["summarize_text"].tries > 0 =>
                /\ h["analyze_pdf"].ok
                /\ h["summarize_text"].arg = h["analyze_pdf"].ret
            /\ h["write_summary"].tries > 0 =>
                /\ h["summarize_text"].ok
                /\ h["write_summary"].arg =
                       Some([blob |-> inst[i].input[1],
                             summary |-> h["summarize_text"].ret[1]])
            /\ Len(act[i]) = 1 =>
                /\ ~h[act[i][1].name].ok
                /\ Some(act[i][1].arg) = h[act[i][1].name].arg
                /\ \A s \in StepNames : h[s].ok \/ s = act[i][1].name
                                            \/ h[s].tries = 0
            /\ inst[i].state = "Completed" =>
                /\ h["write_summary"].ok
                /\ inst[i].outblob = h["write_summary"].ret

C2_Witness ==
    \E i \in DOMAIN inst :
        /\ inst[i].state = "Completed"
        /\ hist[i]["analyze_pdf"].ret = Some(Line1 \o <<"\n">> \o Line2)
        /\ hist[i]["summarize_text"].arg = Some(Line1 \o <<"\n">> \o Line2)
        /\ hist[i]["write_summary"].arg =
               Some([blob |-> Invoice, summary |-> "T"])

\* C3: a step is attempted at most 3 times; a step that has succeeded is not
\* attempted again; a step that has failed 3 times fails the instance, after
\* which no step is started; and nothing a step stored is removed or changed
\* (no rollback).
C3_State ==
    \A i \in DOMAIN inst :
        /\ \A s \in StepNames :
            /\ hist[i][s].tries <= 3
            /\ (hist[i][s].tries = 3 /\ ~hist[i][s].ok /\ Len(act[i]) = 0)
                   => inst[i].state = "Failed"
        /\ inst[i].state = "Failed" =>
            /\ Len(act[i]) = 0
            /\ \E s \in StepNames : hist[i][s].tries = 3 /\ ~hist[i][s].ok

C3_Step ==
    /\ \A i \in DOMAIN inst :
        /\ \A s \in StepNames :
            hist[i][s].ok => hist'[i][s] = hist[i][s]
        /\ inst[i].state = "Failed" =>
            /\ inst'[i] = inst[i]
            /\ hist'[i] = hist[i]
            /\ act'[i] = act[i]
    /\ \A n \in DOMAIN output : n \in DOMAIN output' /\ output'[n] = output[n]
    /\ DOMAIN input \subseteq DOMAIN input'

C3_BoundedRetries == []C3_State /\ [][C3_Step]_vars

C3_Witness ==
    \E i \in DOMAIN inst :
        /\ inst[i].state = "Failed"
        /\ hist[i]["write_summary"].tries = 3
        /\ Cardinality(uploads[i]) = 3
        /\ uploads[i] \subseteq DOMAIN output

SummarizeEnds(i) == http[i] # None /\ http'[i] = None

SummarizeFailed(i) ==
    /\ ~hist'[i]["summarize_text"].ok
    /\ inst'[i].summary = None
    /\ inst'[i].pc = "summarize_text"

RECURSIVE LinesIn(_, _)
LinesIn(doc, p) == IF p = 0 THEN 0 ELSE LinesIn(doc, p - 1) + Len(doc[p])

\* The characters taken by lines 1..l of a page, each with one separator.
RECURSIVE PageChars(_, _)
PageChars(page, l) ==
    IF l = 0 THEN 0 ELSE PageChars(page, l - 1) + Len(page[l]) + 1

RECURSIVE DocChars(_, _)
DocChars(doc, p) ==
    IF p = 0 THEN 0 ELSE DocChars(doc, p - 1) + PageChars(doc[p], Len(doc[p]))

\* text holds line l of page p of doc at the place the lines before it, in
\* page order and then line order, leave for it, followed by a newline
\* unless it is the last line of the document, where the text ends.
LineInPlace(text, doc, p, l) ==
    LET line == doc[p][l]
        off == DocChars(doc, p - 1) + PageChars(doc[p], l - 1)
        last == LinesIn(doc, p - 1) + l = LinesIn(doc, Len(doc))
    IN  /\ Len(text) >= off + Len(line)
        /\ SubSeq(text, off + 1, off + Len(line)) = line
        /\ IF last THEN Len(text) = off + Len(line)
           ELSE /\ Len(text) > off + Len(line)
                /\ text[off + Len(line) + 1] = "\n"

IsTextOf(text, doc) ==
    /\ LinesIn(doc, Len(doc)) = 0 => text = << >>
    /\ \A p \in 1..Len(doc) : \A l \in 1..Len(doc[p]) :
        LineInPlace(text, doc, p, l)

\* C6: the text analyze_pdf returns holds every line of every page, in page
\* order and within a page in line order, joined by single newlines with
\* none before the first or after the last line; it is empty for a document
\* without lines.
C6_TextOfPages ==
    \A i \in DOMAIN inst :
        hist[i]["analyze_pdf"].ok =>
            /\ hist[i]["analyze_pdf"].arg[1] \in DOMAIN input
            /\ hist[i]["analyze_pdf"].read =
                   Some(input[hist[i]["analyze_pdf"].arg[1]])
            /\ IsTextOf(hist[i]["analyze_pdf"].ret[1],
                        hist[i]["analyze_pdf"].read[1])

C6_Witness ==
    \E i \in DOMAIN inst :
        /\ hist[i]["analyze_pdf"].ok
        /\ hist[i]["analyze_pdf"].read =
               Some(<< << <<"a", "b">>, << >> >>, << <<"a", "b">> >> >>)
        /\ hist[i]["analyze_pdf"].ret =
               Some(<<"a", "b", "\n", "\n", "a", "b">>)

DigitValue(c) ==
    CASE c = "0" -> 0 [] c = "1" -> 1 [] c = "2" -> 2 [] c = "3" -> 3
      [] c = "4" -> 4 [] c = "5" -> 5 [] c = "6" -> 6 [] c = "7" -> 7
      [] c = "8" -> 8 [] c = "9" -> 9

\* The number written in decimal at places from..to of s.
RECURSIVE Number(_, _, _)
Number(s, from, to) ==
    IF to < from THEN 0
    ELSE Number(s, from, to - 1) * 10 + DigitValue(s[to])

\* n is blob_name, "-", the clock reading t as yyyyMMddHHmmss, ".txt".
IsOutName(n, blob_name, t) ==
    LET b == Len(blob_name)
    IN  /\ Len(n) = b + 19
        /\ SubSeq(n, 1, b) = blob_name
        /\ n[b + 1] = "-"
        /\ \A k \in (b + 2)..(b + 15) :
            n[k] \in {"0", "1", "2", "3", "4", "5", "6", "7", "8", "9"}
        /\ Number(n, b + 2, b + 5) = t.year
        /\ Number(n, b + 6, b + 7) = t.month
        /\ Number(n, b + 8, b + 9) = t.day
        /\ Number(n, b + 10, b + 11) = t.hour
        /\ Number(n, b + 12, b + 13) = t.minute
        /\ Number(n, b + 14, b + 15) = t.second
        /\ SubSeq(n, b + 16, b + 19) = <<".", "t", "x", "t">>

\* The write_summary execution of instance i ends in this step.
WriteEnds(i) == Executing(i, "write_summary") /\ Len(act'[i]) = 0

\* C7: a write_summary execution given {n, S} at clock reading t stores at
\* most one blob; the blob it stores is named n-<t as yyyyMMddHHmmss>.txt and
\* holds exactly S; and when it returns, it has stored that blob and the
\* value returned is its name.
C7_NameAndContent ==
    [][\A i \in DOMAIN inst :
          WriteEnds(i) =>
              LET arg == act[i][1].arg
                  new == DOMAIN output' \ DOMAIN output
              IN  /\ Cardinality(new) <= 1
                  /\ \A n \in DOMAIN output : output'[n] = output[n]
                  /\ \A n \in new :
                      /\ IsOutName(n, arg.blob, utc)
                      /\ output'[n] = arg.summary
                  /\ hist'[i]["write_summary"].ok =>
                      /\ hist'[i]["write_summary"].ret[1] \in new
                      /\ inst'[i].outblob = hist'[i]["write_summary"].ret]_vars

InvoiceAtNoon ==
    Invoice \o <<"-", "2", "0", "2", "5", "0", "1", "0", "1", "1", "2", "0",
                 "0", "0", "0", ".", "t", "x", "t">>

C7_Witness ==
    /\ utc = DateTime(2025, 1, 1, 12, 0, 0)
    /\ inst[1].state = "Completed"
    /\ inst[1].outblob = Some(InvoiceAtNoon)
    /\ DOMAIN output = {InvoiceAtNoon}
    /\ output[InvoiceAtNoon] = "S"

\* C8: two analyze_pdf invocations for the same blob name, the blob being
\* the same at both, return the same text; and an analyze_pdf execution
\* changes neither the input nor the output container.
C8_State ==
    \A i \in DOMAIN inst : \A j \in DOMAIN inst :
        (/\ hist[i]["analyze_pdf"].ok
         /\ hist[j]["analyze_pdf"].ok
         /\ hist[i]["analyze_pdf"].arg = hist[j]["analyze_pdf"].arg
         /\ hist[i]["analyze_pdf"].read = hist[j]["analyze_pdf"].read)
        => hist[i]["analyze_pdf"].ret = hist[j]["analyze_pdf"].ret

C8_Step ==
    (\E i \in DOMAIN inst :
        Executing(i, "analyze_pdf") /\ Len(act'[i]) = 0)
    => (input' = input /\ output' = output)

Collides(i) ==
    /\ WriteEnds(i)
    /\ \E n \in DOMAIN output : IsOutName(n, act[i][1].arg.blob, utc)

\* C9 as written: when the name computed by a write_summary execution is
\* already that of a blob (written in the same second for the same document
\* name), nothing stops the upload: it is carried out on that blob, which
\* then holds the summary of the second invocation.
C9_CollisionUndetected ==
    [][\A i \in DOMAIN inst :
          Collides(i) =>
              /\ rejected'[i] = rejected[i]
              /\ \A n \in DOMAIN output :
                    IsOutName(n, act[i][1].arg.blob, utc)
                        => output'[n] = act[i][1].arg.summary]_vars

\* C9 as amended: two write_summary executions for the same document name
\* in the same second compute the same name, and the second upload, aimed at
\* the blob the first one wrote, is refused: the output container is left as
\* it was, the blob keeps the summary of the first, and the attempt fails.
C9_State ==
    \A i \in DOMAIN inst : \A n \in rejected[i] :
        /\ n \in DOMAIN output
        /\ \E j \in DOMAIN inst :
            /\ n \in uploads[j]
            /\ inst[j].input = inst[i].input
            /\ output[n] = inst[j].summary[1]

C9_Step ==
    \A i \in DOMAIN inst :
        Collides(i) =>
            /\ output' = output
            /\ ~hist'[i]["write_summary"].ok
            /\ inst'[i].outblob = None
            /\ \E n \in rejected'[i] : IsOutName(n, act[i][1].arg.blob, utc)

C9_CollisionRefused == []C9_State /\ [][C9_Step]_vars

C9_Witness ==
    \E n \in rejected[2] :
        /\ n \in uploads[1]
        /\ inst[1].input = inst[2].input
        /\ inst[2].summary = Some("T")
        /\ output[n] = "S"

\* C10: every started instance eventually ends, completed or failed and in
\* no other way: a completed instance carries the name of the blob
\* write_summary returned, a failed one has a step that failed 3 times; and
\* an instance makes at most 9 activity attempts.
C10_State ==
    \A i \in DOMAIN inst :
        /\ inst[i].state \in {"NotStarted", "Running", "Completed", "Failed"}
        /\ TotalAttempts(i) <= 9
        /\ Terminal(i) => Len(act[i]) = 0
        /\ inst[i].state = "Completed" =>
            /\ hist[i]["write_summary"].ok
            /\ inst[i].outblob # None
            /\ inst[i].outblob[1] \in uploads[i]
        /\ inst[i].state = "Failed" =>
            /\ inst[i].outblob = None
            /\ \E s \in StepNames : hist[i][s].tries = 3 /\ ~hist[i][s].ok

C10_Terminates ==
    /\ []C10_State
    /\ [][\A i \in DOMAIN inst : Terminal(i) => inst'[i] = inst[i]]_vars
    /\ \A i \in Solo : Running(i) ~> Terminal(i)

C10_Witness ==
    \E i \in DOMAIN inst :
        /\ inst[i].state = "Completed"
        /\ TotalAttempts(i) = 9

====
